---------------------------- MODULE Spec2Model ----------------------------
(***************************************************************************)
(* ImageHashManager (native/ImageHashManager.cpp): the dispatcher          *)
(* generateHash, the phash entry point generatePHash, the int64 store into *)
(* the caller's 8-byte slot, the read-back done by the unit test, and the  *)
(* fuzzer harness LLVMFuzzerTestOneInput.                                  *)
(*                                                                         *)
(* A call is executed in steps (name comparison, shape validation,         *)
(* fingerprint, store) so that calls of several threads interleave.        *)
(* A 64-bit signed value is a tuple of four base-2^16 limbs, least         *)
(* significant first, the top limb signed: TLC integers are 32 bits wide.  *)
(***************************************************************************)
EXTENDS Integers, Sequences, FiniteSets, TLC

VARIABLES
    pc,          \* pc[t]: where thread t's current call stands
    call,        \* call[t]: the arguments of thread t's current call
    out,         \* out[t]: the 8 bytes of thread t's output slot (*outImageHash)
    pre,         \* pre[t]: the bytes out[t] held when the current call began
    written,     \* written[t]: indices of out[t] stored to by the current call
    status,      \* status[t]: the int32_t the call returned
    result,      \* result[f]: `const int64_t result` of the activation in frame f
    invoked,     \* invoked[t]: GenerateFingerprint invocations of the current call
    fuzzPc,      \* the fuzzer process: "idle", "returned" or "crashed"
    fuzzBuffer,  \* the fuzzer's std::vector<uint8_t> buffer after resize
    fuzzInvoked  \* GenerateFingerprint invocations made by the harness

vars == <<pc, call, out, pre, written, status, result, invoked,
          fuzzPc, fuzzBuffer, fuzzInvoked>>

callVars == <<pc, call, out, pre, written, status, result, invoked>>
fuzzVars == <<fuzzPc, fuzzBuffer, fuzzInvoked>>

-----------------------------------------------------------------------------
(* Bounds and program constants *)

NumThreads == 2

Threads == 1..NumThreads

\* The thread of the single-caller specification (the unit test's thread).
MainThread == CHOOSE t \in Threads : \A u \in Threads : t <= u

kImageLength == 32

EINVAL == 22

\* `return -EINVAL;`
InvalidArgument == 0 - EINVAL

\* Bytes GenerateFingerprint reads from the pointer it is given.
FrameBytes == kImageLength * kImageLength

-----------------------------------------------------------------------------
(* 64-bit values *)

\* The unsigned 16-bit pattern of a signed top limb, and back.
U16(h) == h % 65536
S16(u) == IF u >= 32768 THEN u - 65536 ELSE u

\* One long division of a base-10^4 numeral (most significant group first)
\* by 2^16: <<quotient numeral, remainder>>.
RECURSIVE DecDiv(_, _, _)
DecDiv(g, carry, acc) ==
    IF g = <<>> THEN <<acc, carry>>
    ELSE LET cur == carry * 10000 + Head(g)
         IN  DecDiv(Tail(g), cur % 65536, Append(acc, cur \div 65536))

\* The int64 denoted by a non-negative decimal literal given in groups of
\* four digits, e.g. 5241969330366601001LL is <<524, 1969, 3303, 6660, 1001>>.
FromDecimal(g) ==
    LET d0 == DecDiv(g, 0, <<>>)
        d1 == DecDiv(d0[1], 0, <<>>)
        d2 == DecDiv(d1[1], 0, <<>>)
        d3 == DecDiv(d2[1], 0, <<>>)
    IN  <<d0[2], d1[2], d2[2], S16(d3[2])>>

\* *reinterpret_cast<int32_t*>(p) = v : only the low four bytes are stored.
StoreInt32(v) ==
    << v[1] % 256, v[1] \div 256, v[2] % 256, v[2] \div 256 >>

\* The eight bytes stored most significant first.
StoreInt64BE(v) ==
    << U16(v[4]) \div 256, U16(v[4]) % 256, v[3] \div 256, v[3] % 256,
       v[2] \div 256, v[2] % 256, v[1] \div 256, v[1] % 256 >>

\* *reinterpret_cast<int64_t*>(outImageHash->data()) = result :
\* the two's complement bytes of v, least significant first.
StoreInt64(v) ==
    << v[1] % 256, v[1] \div 256, v[2] % 256, v[2] \div 256,
       v[3] % 256, v[3] \div 256, U16(v[4]) % 256, U16(v[4]) \div 256 >>

\* *reinterpret_cast<const int64_t*>(outImageHash.data())
LoadInt64(b) ==
    << b[1] + 256 * b[2], b[3] + 256 * b[4], b[5] + 256 * b[6],
       S16(b[7] + 256 * b[8]) >>

-----------------------------------------------------------------------------
(* Buffers and the fingerprinter *)

\* A caller's buffer: the bytes of a raw frame file, `size` of them present.
Frame120 == [file |-> "120.jpg.raw", size |-> FrameBytes]
Frame124 == [file |-> "124.jpg.raw", size |-> FrameBytes]
FrameNeg == [file |-> "synthetic.raw", size |-> FrameBytes]
FrameShort == [file |-> "120.jpg.raw", size |-> 2 * 2]

\* PhashFingerprinter::GenerateFingerprint on FrameBytes readable bytes: a
\* function of the bytes alone.  The values of the fixture frames are the
\* ones the unit test pins; the synthetic frame has the sign bit set.
GenerateFingerprint(buf) ==
    CASE buf.file = "120.jpg.raw" -> FromDecimal(<<524, 1969, 3303, 6660, 1001>>)
      [] buf.file = "124.jpg.raw" -> FromDecimal(<<619, 1181, 8763, 4669, 1487>>)
      [] OTHER -> <<12816, 30292, 47768, 0 - 292>>

\* What a read past the end of the buffer can make of the fingerprint.
GarbageFingerprints == { <<65535, 65535, 65535, 0 - 1>> }

-----------------------------------------------------------------------------
(* Inputs *)

AlgorithmNames == {"phash", "PHASH", "", "wavelet"}
Buffers == {Frame120, Frame124, FrameNeg, FrameShort}
Dims == {0 - 1, 0, 2, kImageLength}

\* The smaller input sets of the concurrent specification.
ConcNames == {"phash", "PHASH", "wavelet"}
ConcBuffers == {Frame120, Frame124}
ConcWidths == {2, kImageLength}
ConcHeights == {kImageLength}

\* Fuzz inputs: `size` bytes, all equal to one fill byte.
FuzzInputs ==
    { [i \in 1..n |-> f] : n \in {0, 1, kImageLength, kImageLength + 1}, f \in {7, 255} }

\* What the slot of thread t holds before its first call.
Sentinel(t) == [i \in 1..8 |-> 160 + t]

-----------------------------------------------------------------------------
(* ImageHashManager *)

\* hashAlgorithm == "PHASH" accepted too (a case-insensitive comparison).
NameMatchesNoCase(hashAlgorithm) == hashAlgorithm \in {"phash", "PHASH"}

\* A second registered name routed to the phash entry point.
NameMatchesWavelet(hashAlgorithm) == hashAlgorithm \in {"phash", "wavelet"}

\* The key spelled as the class is.
NameMatchesCamel(hashAlgorithm) == hashAlgorithm = "pHash"

\* `hashAlgorithm == "phash"`
NameMatches(hashAlgorithm) == hashAlgorithm = "phash"

\* `&&` written for `||`.
ShapeInvalidAnd(width, height) == width # kImageLength /\ height # kImageLength

\* Only the width compared.
ShapeInvalidWidthOnly(width, height) == width # kImageLength

\* `width != kImageLength || height != kImageLength`
ShapeInvalid(width, height) == width # kImageLength \/ height # kImageLength

\* `static` storage: one activation record shared by every call.
ActivationStatic(t) == MainThread

\* `PhashFingerprinter worker; const int64_t result` have automatic storage:
\* each call has its own activation record, here named by its thread.
Activation(t) == t

NewCall(t, c) ==
    /\ pc[t] \in {"idle", "returned"}
    /\ call' = [call EXCEPT ![t] = c]
    /\ pre' = [pre EXCEPT ![t] = out[t]]
    /\ written' = [written EXCEPT ![t] = {}]
    /\ invoked' = [invoked EXCEPT ![t] = 0]

\* generateHash is called and compares the name.
generateHash(t, names, bufs, widths, heights) ==
    /\ \E n \in names, b \in bufs, w \in widths, h \in heights :
          /\ NewCall(t, [api |-> "generateHash", hashAlgorithm |-> n,
                         buf |-> b, width |-> w, height |-> h])
          /\ IF NameMatches(n)
             THEN /\ pc' = [pc EXCEPT ![t] = "generatePHash"]
                  /\ status' = [status EXCEPT ![t] = "pending"]
             ELSE /\ pc' = [pc EXCEPT ![t] = "returned"]
                  /\ status' = [status EXCEPT ![t] = InvalidArgument]
    /\ UNCHANGED <<out, result, fuzzVars>>

\* generatePHash is called directly, as the unit test does.
generatePHashCall(t, bufs, widths, heights) ==
    /\ \E b \in bufs, w \in widths, h \in heights :
          NewCall(t, [api |-> "generatePHash", hashAlgorithm |-> "-",
                      buf |-> b, width |-> w, height |-> h])
    /\ pc' = [pc EXCEPT ![t] = "generatePHash"]
    /\ status' = [status EXCEPT ![t] = "pending"]
    /\ UNCHANGED <<out, result, fuzzVars>>

\* generatePHash checks the declared shape.
generatePHashValidate(t) ==
    /\ pc[t] = "generatePHash"
    /\ IF ShapeInvalid(call[t].width, call[t].height)
       THEN /\ pc' = [pc EXCEPT ![t] = "returned"]
            /\ status' = [status EXCEPT ![t] = InvalidArgument]
       ELSE /\ pc' = [pc EXCEPT ![t] = "worker"]
            /\ UNCHANGED status
    /\ UNCHANGED <<call, out, pre, written, result, invoked, fuzzVars>>

\* worker.GenerateFingerprint(buffer), the buffer holding all it reads.
Fingerprint(t) ==
    /\ pc[t] = "worker"
    /\ call[t].buf.size >= FrameBytes
    /\ result' = [result EXCEPT ![Activation(t)] = GenerateFingerprint(call[t].buf)]
    /\ invoked' = [invoked EXCEPT ![t] = @ + 1]
    /\ pc' = [pc EXCEPT ![t] = "store"]
    /\ UNCHANGED <<call, out, pre, written, status, fuzzVars>>

\* worker.GenerateFingerprint(buffer) reading past the end of the buffer:
\* the process dies, or the fingerprint is made of whatever lies there.
FingerprintOutOfBounds(t) ==
    /\ pc[t] = "worker"
    /\ call[t].buf.size < FrameBytes
    /\ invoked' = [invoked EXCEPT ![t] = @ + 1]
    /\ \/ /\ pc' = [pc EXCEPT ![t] = "crashed"]
          /\ UNCHANGED result
       \/ /\ \E g \in GarbageFingerprints :
                result' = [result EXCEPT ![Activation(t)] = g]
          /\ pc' = [pc EXCEPT ![t] = "store"]
    /\ UNCHANGED <<call, out, pre, written, status, fuzzVars>>

\* The store of result into *outImageHash and `return 0`.
StoreResult(t) ==
    /\ pc[t] = "store"
    /\ LET b == StoreInt64(result[Activation(t)])
       IN  /\ out' = [out EXCEPT ![t] =
                        [i \in 1..8 |-> IF i <= Len(b) THEN b[i] ELSE @[i]]]
           /\ written' = [written EXCEPT ![t] = 1..Len(b)]
    /\ status' = [status EXCEPT ![t] = 0]
    /\ pc' = [pc EXCEPT ![t] = "returned"]
    /\ UNCHANGED <<call, pre, result, invoked, fuzzVars>>

\* generatePHash run from entry to return with nothing interleaved.
generatePHashAlone(buf, width, height, slot) ==
    IF ShapeInvalid(width, height)
    THEN [status |-> InvalidArgument, out |-> slot]
    ELSE LET b == StoreInt64(GenerateFingerprint(buf))
         IN  [status |-> 0,
              out |-> [i \in 1..8 |-> IF i <= Len(b) THEN b[i] ELSE slot[i]]]

\* generateHash run from entry to return with nothing interleaved.
generateHashAlone(c, slot) ==
    IF NameMatches(c.hashAlgorithm)
    THEN generatePHashAlone(c.buf, c.width, c.height, slot)
    ELSE [status |-> InvalidArgument, out |-> slot]

-----------------------------------------------------------------------------
(* The fuzzer harness *)

Min(a, b) == IF a <= b THEN a ELSE b

\* FuzzedDataProvider::ConsumeBytes<uint8_t>(n): at most n bytes from the front.
ConsumeBytes(data, n) == SubSeq(data, 1, Min(n, Len(data)))

\* std::vector::resize(n): truncated, or padded with zero bytes.
Resize(v, n) == [i \in 1..n |-> IF i <= Len(v) THEN v[i] ELSE 0]

\* One run of the harness.  GenerateFingerprint reads FrameBytes bytes from
\* buffer.data(); its value is discarded.
LLVMFuzzerTestOneInput ==
    /\ fuzzPc # "crashed"
    /\ \E data \in FuzzInputs :
          LET buffer == Resize(ConsumeBytes(data, kImageLength), kImageLength)
          IN  /\ fuzzBuffer' = buffer
              /\ fuzzInvoked' = 1
              /\ IF Len(buffer) >= FrameBytes
                 THEN fuzzPc' = "returned"
                 ELSE fuzzPc' \in {"returned", "crashed"}
    /\ UNCHANGED callVars

-----------------------------------------------------------------------------
(* Specifications *)

NoCall == [api |-> "-", hashAlgorithm |-> "-", buf |-> Frame120, width |-> 0, height |-> 0]

Init ==
    /\ pc = [t \in Threads |-> "idle"]
    /\ call = [t \in Threads |-> NoCall]
    /\ out = [t \in Threads |-> Sentinel(t)]
    /\ pre = [t \in Threads |-> Sentinel(t)]
    /\ written = [t \in Threads |-> {}]
    /\ status = [t \in Threads |-> "pending"]
    /\ result = [t \in Threads |-> "uninit"]
    /\ invoked = [t \in Threads |-> 0]
    /\ fuzzPc = "idle"
    /\ fuzzBuffer = <<>>
    /\ fuzzInvoked = 0

\* One caller making calls one after the other, and the fuzzer.
Next ==
    \/ generateHash(MainThread, AlgorithmNames, Buffers, Dims, Dims)
    \/ generatePHashCall(MainThread, Buffers, Dims, Dims)
    \/ generatePHashValidate(MainThread)
    \/ Fingerprint(MainThread)
    \/ FingerprintOutOfBounds(MainThread)
    \/ StoreResult(MainThread)
    \/ LLVMFuzzerTestOneInput

Spec == Init /\ [][Next]_vars

\* Every thread making generateHash calls, interleaved step by step.
NextConc ==
    \E t \in Threads :
        \/ generateHash(t, ConcNames, ConcBuffers, ConcWidths, ConcHeights)
        \/ generatePHashValidate(t)
        \/ Fingerprint(t)
        \/ StoreResult(t)

SpecConc == Init /\ [][NextConc]_vars

-----------------------------------------------------------------------------
(* Properties *)

Returned(t) == pc[t] = "returned"

\* The call asks for the phash algorithm: by name, or by the direct entry point.
PhashRequest(t) ==
    \/ call[t].api = "generatePHash"
    \/ call[t].api = "generateHash" /\ call[t].hashAlgorithm = "phash"

SquareShape(t) == call[t].width = kImageLength /\ call[t].height = kImageLength

\* The caller's buffer holds at least the declared width x height bytes.
BufferAsDeclared(t) == call[t].buf.size >= call[t].width * call[t].height

\* C1: a returned call has stored to its output slot iff its status is 0, and
\* then to all 8 bytes; with a non-zero status the slot holds the bytes it
\* held before the call.
C1_WrittenIffSuccess ==
    \A t \in Threads :
        Returned(t) =>
            /\ status[t] = 0 <=> written[t] # {}
            /\ status[t] = 0 => written[t] = 1..8
            /\ status[t] # 0 => out[t] = pre[t]

\* A failed call that left a hash of an earlier call in the slot.
C1_Witness ==
    \E t \in Threads :
        /\ Returned(t) /\ status[t] # 0
        /\ out[t] = pre[t] /\ out[t] # Sentinel(t)

\* C2: a phash request (generateHash("phash") or generatePHash) declaring
\* kImageLength x kImageLength over a buffer of that size returns 0 with all 8
\* bytes of the slot stored, and does not crash.
C2_SquareSucceeds ==
    \A t \in Threads :
        (/\ pc[t] \in {"returned", "crashed"}
         /\ PhashRequest(t) /\ SquareShape(t) /\ BufferAsDeclared(t))
            => /\ Returned(t)
               /\ status[t] = 0
               /\ written[t] = 1..8

\* generateHash("phash", 120.jpg.raw, 32x32) returned 0 and the slot holds the
\* little-endian bytes of 5241969330366601001.
C2_Witness ==
    \E t \in Threads :
        /\ Returned(t) /\ call[t].api = "generateHash" /\ call[t].buf = Frame120
        /\ SquareShape(t) /\ status[t] = 0
        /\ out[t] = <<41, 87, 254, 51, 85, 55, 191, 72>>

\* C3: a phash request whose width or height differs from kImageLength never
\* gets past validation, returns -EINVAL and leaves the slot as it was.
C3_WrongShapeRejected ==
    \A t \in Threads :
        (PhashRequest(t) /\ ~SquareShape(t))
            => /\ pc[t] \in {"generatePHash", "returned"}
               /\ Returned(t) => /\ status[t] = -EINVAL
                                  /\ out[t] = pre[t]
                                  /\ written[t] = {}

\* A rejected request in which only the height differs.
C3_Witness ==
    \E t \in Threads :
        /\ Returned(t) /\ PhashRequest(t)
        /\ call[t].width = kImageLength /\ call[t].height <= 0
        /\ status[t] = -EINVAL

\* C4: generateHash with a name other than "phash" returns -EINVAL at once,
\* whatever the buffer and the descriptor, without invoking GenerateFingerprint.
C4_UnknownNameRejected ==
    \A t \in Threads :
        (call[t].api = "generateHash" /\ call[t].hashAlgorithm # "phash")
            => /\ Returned(t)
               /\ status[t] = -EINVAL
               /\ invoked[t] = 0

\* "PHASH" with a square descriptor and a full buffer was rejected.
C4_Witness ==
    \E t \in Threads :
        /\ Returned(t) /\ call[t].api = "generateHash"
        /\ call[t].hashAlgorithm = "PHASH" /\ SquareShape(t)
        /\ call[t].buf = Frame124 /\ status[t] = -EINVAL

\* C5 as claimed: generateHash("wavelet") returns 0 with an 8-byte hash in
\* the slot, whatever the declared width and height.
C5_WaveletRegistered ==
    \A t \in Threads :
        (Returned(t) /\ call[t].api = "generateHash" /\ call[t].hashAlgorithm = "wavelet")
            => status[t] = 0 /\ written[t] = 1..8

\* C5 as amended: "wavelet" is an unknown name to generateHash: whatever
\* the declared width and height the call returns -EINVAL, invokes no
\* algorithm and leaves the slot as it was.
C5_WaveletUnknown ==
    \A t \in Threads :
        (call[t].api = "generateHash" /\ call[t].hashAlgorithm = "wavelet")
            => /\ Returned(t)
               /\ status[t] = -EINVAL
               /\ invoked[t] = 0
               /\ written[t] = {}
               /\ out[t] = pre[t]

C5_Witness ==
    \E t \in Threads :
        /\ Returned(t) /\ call[t].api = "generateHash"
        /\ call[t].hashAlgorithm = "wavelet" /\ ~SquareShape(t)
        /\ status[t] = -EINVAL

\* C6: a call invokes GenerateFingerprint (the only reader of the buffer) at
\* most once, and only when it is a phash request whose width and height
\* both equal kImageLength; a call that has not passed validation has not
\* invoked it.
C6_InvokedOnlyAfterValidation ==
    \A t \in Threads :
        /\ invoked[t] <= 1
        /\ invoked[t] > 0 => PhashRequest(t) /\ SquareShape(t)
        /\ pc[t] \in {"idle", "generatePHash", "worker"} => invoked[t] = 0
        /\ (Returned(t) /\ status[t] # 0) => invoked[t] = 0

\* A validated call that has just invoked GenerateFingerprint, once.
C6_Witness ==
    \E t \in Threads : pc[t] = "store" /\ invoked[t] = 1 /\ SquareShape(t)

\* C7 as claimed: every GenerateFingerprint invocation is passed a buffer of
\* at least kImageLength x kImageLength bytes: in generatePHash when the
\* caller's buffer is as large as declared, and in the fuzzer harness always.
C7_FingerprintBufferLargeEnough ==
    /\ \A t \in Threads :
          (invoked[t] > 0 /\ BufferAsDeclared(t))
              => call[t].buf.size >= kImageLength * kImageLength
    /\ fuzzInvoked > 0 => Len(fuzzBuffer) >= kImageLength * kImageLength

\* C8: two completed generateHash calls with the same name, buffer, width and
\* height have the same status and, on success, the same 8 output bytes,
\* whatever was called before or between them and whatever their slots held.
C8_Deterministic ==
    \A t, u \in Threads :
        (Returned(t) /\ Returned(u) /\ call[t] = call[u])
            => /\ status[t] = status[u]
               /\ status[t] = 0 => out[t] = out[u]

\* Two successful calls with equal arguments whose slots held different bytes.
C8_Witness ==
    \E t, u \in Threads :
        /\ t # u /\ Returned(t) /\ Returned(u) /\ call[t] = call[u]
        /\ status[t] = 0 /\ pre[t] # pre[u] /\ pre[t] # Sentinel(t)

\* C9: under every interleaving a returned call has the status and the slot
\* bytes it has when run alone on its own arguments and slot, and a slot
\* changes only by the store of its own call.
C9_AsIfAlone ==
    \A t \in Threads :
        /\ Returned(t) =>
              /\ status[t] = generateHashAlone(call[t], pre[t]).status
              /\ out[t] = generateHashAlone(call[t], pre[t]).out
        /\ pc[t] \in {"idle", "generatePHash", "worker", "store"} => out[t] = pre[t]

\* Two calls on different buffers both between fingerprint and store.
C9_Witness ==
    \E t, u \in Threads :
        /\ pc[t] = "store" /\ pc[u] = "store"
        /\ call[t].buf # call[u].buf

\* C10: after a successful phash call the slot read back as an int64 is the
\* value GenerateFingerprint returned in the call, which for a buffer holding
\* the whole frame is GenerateFingerprint of that buffer.
C10_StoreLoadRoundTrip ==
    \A t \in Threads :
        (Returned(t) /\ status[t] = 0)
            => /\ LoadInt64(out[t]) = result[Activation(t)]
               /\ call[t].buf.size >= FrameBytes
                     => LoadInt64(out[t]) = GenerateFingerprint(call[t].buf)

\* A fingerprint with the sign bit set read back from the slot.
C10_Witness ==
    \E t \in Threads :
        /\ Returned(t) /\ status[t] = 0 /\ call[t].buf = FrameNeg
        /\ LoadInt64(out[t])[4] < 0

=============================================================================
